---- MODULE Spec2Model ----
(***************************************************************************)
(* WeaviateVector (api/core/rag/datasource/vdb/weaviate/weaviate_vector.py) *)
(* as a state machine: the adapter's handlers running against a Weaviate   *)
(* backend that holds class schemas and data objects.                      *)
(*                                                                         *)
(* Strings that are only compared (ids, metadata values, texts, messages)  *)
(* are numbered; distances are fixed-point numbers.  Vectors are left out: *)
(* no handler inspects them.                                               *)
(***************************************************************************)
EXTENDS Integers, Sequences, FiniteSets, TLC

\* ------------------------------------------------------------------ bounds
NumIds == 2
MaxDocs == 2
MaxRows == 2
MaxDist == 2
MaxLen == 2
\* WeaviateConfig.batch_size as configured for the model's adapters
batch_size == 2

\* ------------------------------------------------------- program constants
timeout_retries == 3
DefaultScoreThreshold == 0
DefaultTopKVector == 4
DefaultTopKFullText == 2

Callers == {1, 2}

\* The class every adapter instance of the model is constructed with, and a
\* class owned by another dataset.
OwnClass == "A"
OtherClass == "B"
collection_name == [c \in Callers |-> OwnClass]

Ids == 0 .. (NumIds - 1)
Values == Ids
TEXT_KEY == "text"
MetaKeys == {"doc_id", "created_at"}
Texts == {0}
ErrMsgs == {0}

\* A datetime metadata value and its ISO-8601 text.
Datetimes == {100}
isoformat(v) == v - 90

Range(s) == {s[i] : i \in 1 .. Len(s)}
SeqsUpTo(S, n) == UNION {[1 .. k -> S] : k \in 0 .. n}
Min(a, b) == IF a < b THEN a ELSE b

\* Document(page_content, metadata)
Metadatas == {<<>>} \cup {("doc_id" :> d) : d \in Values}
Documents == [page_content : Texts, metadata : Metadatas]

VARIABLES
  schemas,   \* backend: the class schemas
  objects,   \* backend: the data objects, [cls, uuid, props]
  pc,        \* per caller: position in the handler it runs
  call,      \* per caller: the handler and its arguments
  dropped,   \* per caller: the handler it ran before this one was delete
  ret,       \* per caller: what the handler returned or raised
  resp,      \* per caller: the backend's last response
  nqueries,  \* per caller: queries issued by the running handler
  found,     \* create: result of schema.contains
  uuids,     \* add_texts: uuids
  ids,       \* add_texts: ids
  batch,     \* the client's pending batch
  retries,   \* the client's timeout count for the batch being sent
  dataset,   \* naming: the Dataset handed to get_collection_name
  names,     \* naming: the names derived so far
  npc        \* naming: position

backendVars == <<schemas, objects>>
callVars == <<pc, call, dropped, ret, resp, nqueries>>
batchVars == <<found, uuids, ids, batch, retries>>
nameVars == <<dataset, names, npc>>
vars == <<schemas, objects, pc, call, dropped, ret, resp, nqueries,
          found, uuids, ids, batch, retries, dataset, names, npc>>

\* ------------------------------------------------------------ the backend
\* _default_schema
default_schema(index_name) ==
  [class |-> index_name,
   properties |-> <<[name |-> "text", dataType |-> <<"text">>]>>]

\* client.schema.contains(schema)
schema_contains(S, schema) ==
  \E s \in S : /\ s.class = schema.class
               /\ Range(schema.properties) \subseteq Range(s.properties)

ClassExists(S, cls) == \E s \in S : s.class = cls

\* A where filter {"operator": "Equal", "path": [key], "valueText": value}
\* evaluated on one object.
EvalWhere(where, o) ==
  /\ where.operator = "Equal"
  /\ where.path[1] \in DOMAIN o.props
  /\ o.props[where.path[1]] = where.valueText

ObjectsOf(O, cls) == {o \in O : o.cls = cls}

\* One object written by the batch endpoint: an object with the same class and
\* uuid is replaced.
Upsert(O, item) ==
  {o \in O : ~(o.cls = item.class_name /\ o.uuid = item.uuid)}
    \cup {[cls |-> item.class_name, uuid |-> item.uuid, props |-> item.data_object]}

\* The batch endpoint on the items of one request: an item is stored unless the
\* backend rejects it (rejected: the positions it reports an error for) or its
\* class does not exist.
RECURSIVE BatchCreate(_, _, _, _, _)
BatchCreate(O, S, items, rejected, j) ==
  IF j > Len(items) THEN O
  ELSE BatchCreate(IF j \notin rejected /\ ClassExists(S, items[j].class_name)
                     THEN Upsert(O, items[j]) ELSE O,
                   S, items, rejected, j + 1)

NoRet == [exc |-> "none", msg |-> <<>>, returned |-> FALSE, val |-> <<>>]
NoResp == [data |-> <<>>]

Idle(c) == pc[c] = "idle"

\* A caller enters handler args.op and reaches position at; r, rsp and nq are
\* set by the handlers that are one backend call.
Enter(c, args, at, r, rsp, nq) ==
  /\ Idle(c)
  /\ pc' = [pc EXCEPT ![c] = at]
  /\ call' = [call EXCEPT ![c] = args]
  /\ UNCHANGED dropped
  /\ ret' = [ret EXCEPT ![c] = r]
  /\ resp' = [resp EXCEPT ![c] = rsp]
  /\ nqueries' = [nqueries EXCEPT ![c] = nq]
  /\ found' = [found EXCEPT ![c] = FALSE]
  /\ uuids' = [uuids EXCEPT ![c] = <<>>]
  /\ ids' = [ids EXCEPT ![c] = <<>>]
  /\ batch' = [batch EXCEPT ![c] = <<>>]
  /\ retries' = [retries EXCEPT ![c] = 0]

Finish(c, r) ==
  /\ pc' = [pc EXCEPT ![c] = "done"]
  /\ ret' = [ret EXCEPT ![c] = r]

Raised(e, m) == [exc |-> e, msg |-> m, returned |-> FALSE, val |-> <<>>]
Returned(v) == [exc |-> "none", msg |-> <<>>, returned |-> TRUE, val |-> v]

InitBackend ==
  /\ schemas \in {{default_schema(OtherClass)},
                  {default_schema(OtherClass), default_schema(OwnClass)}}
  /\ objects = {[cls |-> OtherClass, uuid |-> 0,
                 props |-> [text |-> 0, doc_id |-> 0]]}

InitCallers ==
  /\ pc = [c \in Callers |-> "idle"]
  /\ call = [c \in Callers |-> [op |-> "none"]]
  /\ dropped = [c \in Callers |-> FALSE]
  /\ ret = [c \in Callers |-> NoRet]
  /\ resp = [c \in Callers |-> NoResp]
  /\ nqueries = [c \in Callers |-> 0]
  /\ found = [c \in Callers |-> FALSE]
  /\ uuids = [c \in Callers |-> <<>>]
  /\ ids = [c \in Callers |-> <<>>]
  /\ batch = [c \in Callers |-> <<>>]
  /\ retries = [c \in Callers |-> 0]

Init ==
  /\ InitBackend
  /\ InitCallers
  /\ dataset = [index_struct_dict |-> <<>>, id |-> <<>>]
  /\ names = <<>>
  /\ npc = "off"

\* The caller takes the result; the adapter is ready for the next call.
Return(c) ==
  /\ pc[c] = "done"
  /\ pc' = [pc EXCEPT ![c] = "idle"]
  /\ dropped' = [dropped EXCEPT ![c] = (call[c].op = "delete")]
  /\ call' = [call EXCEPT ![c] = [op |-> "none"]]
  /\ ret' = [ret EXCEPT ![c] = NoRet]
  /\ resp' = [resp EXCEPT ![c] = NoResp]
  /\ nqueries' = [nqueries EXCEPT ![c] = 0]
  /\ found' = [found EXCEPT ![c] = FALSE]
  /\ uuids' = [uuids EXCEPT ![c] = <<>>]
  /\ ids' = [ids EXCEPT ![c] = <<>>]
  /\ batch' = [batch EXCEPT ![c] = <<>>]
  /\ retries' = [retries EXCEPT ![c] = 0]
  /\ UNCHANGED <<schemas, objects, dataset, names, npc>>

\* ------------------------------------------------- create, add_texts, delete
\* BaseVector._get_uuids: a reproducible identifier derived from doc_id (a
\* hash), otherwise a fresh random one (rnd).
Derive(d) == (d + 1) % NumIds

get_uuids(documents, rnd) ==
  [i \in 1 .. Len(documents) |->
     IF "doc_id" \in DOMAIN documents[i].metadata
       THEN Derive(documents[i].metadata["doc_id"])
       ELSE rnd[i]]

json_serializable(value) ==
  IF value \in Datetimes THEN isoformat(value) ELSE value

\* data_properties of add_texts: the text, then every metadata item.
data_properties(d) ==
  [k \in {TEXT_KEY} \cup DOMAIN d.metadata |->
     IF k \in DOMAIN d.metadata THEN json_serializable(d.metadata[k])
     ELSE d.page_content]

DocsOf(c) ==
  IF call[c].op = "create" THEN call[c].texts
  ELSE IF call[c].op = "add_texts" THEN call[c].documents
  ELSE <<>>

Create(c, texts) ==
  /\ Enter(c, [op |-> "create", texts |-> texts], "contains", NoRet, NoResp, 0)
  /\ UNCHANGED <<backendVars, nameVars>>

\* create without the existence check: the class is always created.
SchemaContains_Unchecked(c) ==
  /\ pc[c] = "contains"
  /\ found' = [found EXCEPT ![c] = FALSE]
  /\ pc' = [pc EXCEPT ![c] = "create_class"]
  /\ UNCHANGED <<backendVars, call, dropped, ret, resp, nqueries,
                 uuids, ids, batch, retries, nameVars>>

\* if not self._client.schema.contains(schema)
SchemaContains(c) ==
  /\ pc[c] = "contains"
  /\ LET f == schema_contains(schemas, default_schema(collection_name[c])) IN
       /\ found' = [found EXCEPT ![c] = f]
       /\ pc' = [pc EXCEPT ![c] = IF f THEN "add_texts" ELSE "create_class"]
  /\ UNCHANGED <<backendVars, call, dropped, ret, resp, nqueries,
                 uuids, ids, batch, retries, nameVars>>

\* self._client.schema.create_class(schema): the backend refuses a class name
\* it already holds.
CreateClass(c) ==
  /\ pc[c] = "create_class"
  /\ IF ClassExists(schemas, collection_name[c])
       THEN /\ Finish(c, Raised("UnexpectedStatusCodeException", <<>>))
            /\ UNCHANGED schemas
       ELSE /\ schemas' = schemas \cup {default_schema(collection_name[c])}
            /\ pc' = [pc EXCEPT ![c] = "add_texts"]
            /\ UNCHANGED ret
  /\ UNCHANGED <<objects, call, dropped, resp, nqueries, batchVars, nameVars>>

AddTexts(c, documents) ==
  /\ Enter(c, [op |-> "add_texts", documents |-> documents], "add_texts",
           NoRet, NoResp, 0)
  /\ UNCHANGED <<backendVars, nameVars>>

\* uuids = self._get_uuids(documents); ids = []; with self._client.batch
GetUuids(c, rnd) ==
  /\ pc[c] = "add_texts"
  /\ uuids' = [uuids EXCEPT ![c] = get_uuids(DocsOf(c), rnd)]
  /\ ids' = [ids EXCEPT ![c] = <<>>]
  /\ pc' = [pc EXCEPT ![c] = "batch_add"]
  /\ UNCHANGED <<backendVars, call, dropped, ret, resp, nqueries,
                 found, batch, retries, nameVars>>

\* batch.add_data_object(...); ids.append(uuids[i]).  With dynamic batching
\* the client sends the pending batch when it holds the recommended number
\* of objects, which is at most batch_size.
AddDataObject(c, send) ==
  /\ pc[c] = "batch_add"
  /\ Len(ids[c]) < Len(DocsOf(c))
  /\ LET i == Len(ids[c]) + 1
         item == [data_object |-> data_properties(DocsOf(c)[i]),
                  class_name |-> collection_name[c],
                  uuid |-> uuids[c][i]]
     IN /\ batch' = [batch EXCEPT ![c] = Append(@, item)]
        /\ ids' = [ids EXCEPT ![c] = Append(@, uuids[c][i])]
        /\ Len(batch[c]) + 1 >= batch_size => send
        /\ pc' = [pc EXCEPT ![c] = IF send THEN "batch_flush" ELSE "batch_add"]
  /\ UNCHANGED <<backendVars, call, dropped, ret, resp, nqueries,
                 found, uuids, retries, nameVars>>

\* Leaving the with block sends what is pending.
ExitBatch(c) ==
  /\ pc[c] = "batch_add"
  /\ Len(ids[c]) = Len(DocsOf(c))
  /\ batch[c] # <<>>
  /\ pc' = [pc EXCEPT ![c] = "batch_flush"]
  /\ UNCHANGED <<backendVars, call, dropped, ret, resp, nqueries,
                 batchVars, nameVars>>

\* The request times out: the client sends it again timeout_retries times,
\* then raises.
BatchTimeout(c) ==
  /\ pc[c] = "batch_flush"
  /\ IF retries[c] < timeout_retries
       THEN /\ retries' = [retries EXCEPT ![c] = @ + 1]
            /\ UNCHANGED <<pc, ret>>
       ELSE /\ Finish(c, Raised("ReadTimeout", <<>>))
            /\ UNCHANGED retries
  /\ UNCHANGED <<backendVars, call, dropped, resp, nqueries,
                 found, uuids, ids, batch, nameVars>>

\* The request is answered: per-object errors are in the response, which
\* add_texts does not read.
BatchResponse(c, rejected) ==
  /\ pc[c] = "batch_flush"
  /\ objects' = BatchCreate(objects, schemas, batch[c], rejected, 1)
  /\ resp' = [resp EXCEPT ![c] = [results |-> rejected]]
  /\ batch' = [batch EXCEPT ![c] = <<>>]
  /\ retries' = [retries EXCEPT ![c] = 0]
  /\ pc' = [pc EXCEPT ![c] = "batch_add"]
  /\ UNCHANGED <<schemas, call, dropped, ret, nqueries,
                 found, uuids, ids, nameVars>>

\* return ids (add_texts); create returns nothing.
AddTextsReturn(c) ==
  /\ pc[c] = "batch_add"
  /\ Len(ids[c]) = Len(DocsOf(c))
  /\ batch[c] = <<>>
  /\ Finish(c, Returned(IF call[c].op = "create" THEN <<>> ELSE ids[c]))
  /\ UNCHANGED <<backendVars, call, dropped, resp, nqueries,
                 batchVars, nameVars>>

\* self._client.schema.delete_class(self._collection_name)
delete_class(S, cls) == {s \in S : s.class # cls}

\* delete that empties the class and keeps its schema.
Delete_KeepSchema(c) ==
  /\ Enter(c, [op |-> "delete"], "done", Returned(<<>>), NoResp, 0)
  /\ objects' = objects \ ObjectsOf(objects, collection_name[c])
  /\ UNCHANGED <<schemas, nameVars>>

Delete(c) ==
  /\ Enter(c, [op |-> "delete"], "done", Returned(<<>>), NoResp, 0)
  /\ schemas' = delete_class(schemas, collection_name[c])
  /\ objects' = objects \ ObjectsOf(objects, collection_name[c])
  /\ UNCHANGED nameVars

\* ------------------------------------------------------ deletes by filter
\* self._client.batch.delete_objects(class_name, where, output='minimal')
delete_objects(O, cls, where) ==
  {o \in O : ~(o.cls = cls /\ EvalWhere(where, o))}

\* delete_by_metadata_field with the filter applied to every class.
DeleteByMetadataField_AnyClass(c, key, value) ==
  LET where_filter == [operator |-> "Equal", path |-> <<key>>, valueText |-> value]
      after == {o \in objects : ~EvalWhere(where_filter, o)}
  IN /\ Enter(c, [op |-> "delete_by_metadata_field", key |-> key, value |-> value],
              "done", Returned(<<>>),
              [results |-> [matches |-> Cardinality(objects \ after)]], 0)
     /\ objects' = after
     /\ UNCHANGED <<schemas, nameVars>>

DeleteByMetadataField(c, key, value) ==
  LET where_filter == [operator |-> "Equal", path |-> <<key>>, valueText |-> value]
      after == delete_objects(objects, collection_name[c], where_filter)
  IN /\ Enter(c, [op |-> "delete_by_metadata_field", key |-> key, value |-> value],
              "done", Returned(<<>>),
              [results |-> [matches |-> Cardinality(objects \ after)]], 0)
     /\ objects' = after
     /\ UNCHANGED <<schemas, nameVars>>

\* self._client.data_object.delete(ids, class_name=self._collection_name)
data_object_delete(O, idlist, cls) ==
  {o \in O : ~(o.cls = cls /\ o.uuid \in Range(idlist))}

DeleteByIds(c, idlist) ==
  /\ Enter(c, [op |-> "delete_by_ids", ids |-> idlist], "done", Returned(<<>>),
           NoResp, 0)
  /\ objects' = data_object_delete(objects, idlist, collection_name[c])
  /\ UNCHANGED <<schemas, nameVars>>

\* ------------------------------------------------------------------ queries
\* What the GraphQL endpoint may answer to a Get on class cls when rowsets are
\* the row lists the data admits: an error list (never empty) with or without
\* a data section, or, if the class exists, the data.
QueryResponses(S, cls, rowsets) ==
  {[errors |-> <<m>>] : m \in ErrMsgs}
    \cup {[data |-> <<>>, errors |-> <<m>>] : m \in ErrMsgs}
    \cup (IF ClassExists(S, cls) THEN {[data |-> rows] : rows \in rowsets} ELSE {})

KwGet(kwargs, key, default) ==
  IF key \in DOMAIN kwargs THEN kwargs[key] ELSE default

\* Get(cls).with_additional(["id"]).with_where(where).with_limit(1)
GetWhereLimit1(O, cls, where) ==
  LET M == {o \in ObjectsOf(O, cls) : EvalWhere(where, o)}
  IN IF M = {} THEN {<<>>}
     ELSE {<<[additional |-> [id |-> o.uuid]]>> : o \in M}

ExistsWhere(id) == [path |-> <<"doc_id">>, operator |-> "Equal", valueText |-> id]

\* text_exists that reads the rows without looking for errors.
text_exists_Swallow(result) ==
  IF "data" \in DOMAIN result /\ Len(result.data) # 0
    THEN Returned(TRUE) ELSE Returned(FALSE)

\* text_exists from the response on
text_exists(result) ==
  IF "errors" \in DOMAIN result
    THEN Raised("ValueError", result.errors)
    ELSE IF Len(result.data) = 0 THEN Returned(FALSE) ELSE Returned(TRUE)

TextExists(c, id) ==
  /\ \E result \in QueryResponses(schemas, collection_name[c],
                     GetWhereLimit1(objects, collection_name[c], ExistsWhere(id))) :
       Enter(c, [op |-> "text_exists", id |-> id], "done",
             text_exists(result), result, 1)
  /\ UNCHANGED <<backendVars, nameVars>>

\* Rows of a near-vector Get with_additional(["vector", "distance"])
VectorRow == [text : Texts, additional : [distance : 0 .. MaxDist]]

RECURSIVE FilterByScore(_, _, _)
FilterByScore(docs_and_scores, score_threshold, j) ==
  IF j > Len(docs_and_scores) THEN <<>>
  ELSE LET doc == docs_and_scores[j][1]
           score == docs_and_scores[j][2]
           rest == FilterByScore(docs_and_scores, score_threshold, j + 1)
       IN IF score > score_threshold
            THEN <<[page_content |-> doc.page_content,
                    metadata |-> doc.metadata @@ ("score" :> score)]>> \o rest
            ELSE rest

\* search_by_vector from the response on
search_by_vector(result, kwargs) ==
  IF "errors" \in DOMAIN result
    THEN Raised("ValueError", result.errors)
    ELSE LET docs_and_scores ==
               [j \in 1 .. Len(result.data) |->
                  <<[page_content |-> result.data[j].text,
                     metadata |-> ("additional" :> result.data[j].additional)],
                    result.data[j].additional.distance>>]
         IN Returned(FilterByScore(docs_and_scores,
                       KwGet(kwargs, "score_threshold", DefaultScoreThreshold), 1))

SearchByVector(c, kwargs) ==
  /\ \E result \in QueryResponses(schemas, collection_name[c],
                     SeqsUpTo(VectorRow,
                              Min(KwGet(kwargs, "top_k", DefaultTopKVector), MaxRows))) :
       Enter(c, [op |-> "search_by_vector", kwargs |-> kwargs], "done",
             search_by_vector(result, kwargs), result, 1)
  /\ UNCHANGED <<backendVars, nameVars>>

\* Rows of a bm25 Get
FullTextRow == [text : Texts, doc_id : Ids]

\* search_by_full_text from the response on
search_by_full_text(result) ==
  IF "errors" \in DOMAIN result
    THEN Raised("ValueError", result.errors)
    ELSE Returned([j \in 1 .. Len(result.data) |->
                     [page_content |-> result.data[j].text,
                      metadata |-> ("doc_id" :> result.data[j].doc_id)]])

SearchByFullText(c, kwargs) ==
  /\ \E result \in QueryResponses(schemas, collection_name[c],
                     SeqsUpTo(FullTextRow,
                              Min(KwGet(kwargs, "top_k", DefaultTopKFullText), MaxRows))) :
       Enter(c, [op |-> "search_by_full_text", kwargs |-> kwargs], "done",
             search_by_full_text(result), result, 1)
  /\ UNCHANGED <<backendVars, nameVars>>

\* ------------------------------------------------------------------- naming
NodeSuffix == <<"_", "N", "o", "d", "e">>
VectorIndexPrefix == <<"V", "e", "c", "t", "o", "r", "_", "i", "n", "d", "e", "x", "_">>

endswith(s, suffix) ==
  /\ Len(s) >= Len(suffix)
  /\ SubSeq(s, Len(s) - Len(suffix) + 1, Len(s)) = suffix

\* str.replace for one-character old and new
replace(s, old, new) == [i \in 1 .. Len(s) |-> IF s[i] = old THEN new ELSE s[i]]

\* get_collection_name that appends the marker without looking at the prefix.
get_collection_name_Append(ds) ==
  IF DOMAIN ds.index_struct_dict # {}
    THEN ds.index_struct_dict.vector_store.class_prefix \o NodeSuffix
    ELSE VectorIndexPrefix \o replace(ds.id, "-", "_") \o NodeSuffix

get_collection_name(ds) ==
  IF DOMAIN ds.index_struct_dict # {}
    THEN LET class_prefix == ds.index_struct_dict.vector_store.class_prefix
         IN IF ~endswith(class_prefix, NodeSuffix)
              THEN class_prefix \o NodeSuffix
              ELSE class_prefix
    ELSE VectorIndexPrefix \o replace(ds.id, "-", "_") \o NodeSuffix

get_type == "weaviate"

to_index_struct(name) ==
  [type |-> get_type, vector_store |-> [class_prefix |-> name]]

Stems == SeqsUpTo({"a", "-", "_"}, MaxLen)
Endings == {<<>>, NodeSuffix, <<"N", "o", "d", "e">>, <<"_", "N", "o", "d">>,
            <<"_", "n", "o", "d", "e">>, NodeSuffix \o <<"_">>}
ClassPrefixes == {s \o e : s \in Stems, e \in Endings}
Datasets ==
  [index_struct_dict : {<<>>} \cup {to_index_struct(p) : p \in ClassPrefixes},
   id : Stems]

MaxDerive == 2

\* name = get_collection_name(dataset), the adapter is constructed with it
GetCollectionName ==
  /\ npc = "derive"
  /\ names' = Append(names, get_collection_name(dataset))
  /\ npc' = "store"
  /\ UNCHANGED <<dataset, backendVars, callVars, batchVars>>

\* dataset.index_struct = to_index_struct() of the adapter
ToIndexStruct ==
  /\ npc = "store"
  /\ Len(names) < MaxDerive
  /\ dataset' = [dataset EXCEPT !.index_struct_dict = to_index_struct(names[Len(names)])]
  /\ npc' = "derive"
  /\ UNCHANGED <<names, backendVars, callVars, batchVars>>

\* ---------------------------------------------------------- specifications
Kwargs(keys) ==
  UNION {{kw \in [D -> 0 .. MaxDist] : "top_k" \in D => kw["top_k"] = 1} :
           D \in SUBSET keys}

\* One adapter, its writing handlers called one after the other.
Next ==
  \/ \E texts \in SeqsUpTo(Documents, MaxDocs) : Create(1, texts)
  \/ SchemaContains(1)
  \/ CreateClass(1)
  \/ \E documents \in SeqsUpTo(Documents, MaxDocs) : AddTexts(1, documents)
  \/ \E rnd \in [1 .. Len(DocsOf(1)) -> Ids] : GetUuids(1, rnd)
  \/ \E send \in BOOLEAN : AddDataObject(1, send)
  \/ ExitBatch(1)
  \/ BatchTimeout(1)
  \/ \E rejected \in SUBSET (1 .. Len(batch[1])) : BatchResponse(1, rejected)
  \/ AddTextsReturn(1)
  \/ Delete(1)
  \/ \E key \in MetaKeys \cup {TEXT_KEY}, value \in Values :
       DeleteByMetadataField(1, key, value)
  \/ \E idlist \in SeqsUpTo(Ids, MaxDocs) : DeleteByIds(1, idlist)
  \/ Return(1)

Spec == Init /\ [][Next]_vars

\* One adapter, its querying handlers called on a stored collection.
StoredObjects ==
  {[cls |-> OwnClass, uuid |-> Derive(d), props |-> [text |-> 0, doc_id |-> d]] :
     d \in Values}
    \cup {[cls |-> OwnClass, uuid |-> u, props |-> [text |-> 0]] : u \in Ids}

QueryInit ==
  /\ schemas \in {{default_schema(OtherClass)},
                  {default_schema(OtherClass), default_schema(OwnClass)}}
  /\ objects \in {O \in SUBSET StoredObjects :
                    /\ O # {} => ClassExists(schemas, OwnClass)
                    /\ \A o1, o2 \in O : o1.uuid = o2.uuid => o1 = o2}
  /\ InitCallers
  /\ dataset = [index_struct_dict |-> <<>>, id |-> <<>>]
  /\ names = <<>>
  /\ npc = "off"

QueryNext ==
  \/ \E id \in Ids : TextExists(1, id)
  \/ \E kwargs \in Kwargs({"score_threshold", "top_k"}) : SearchByVector(1, kwargs)
  \/ \E kwargs \in Kwargs({"top_k"}) : SearchByFullText(1, kwargs)
  \/ Return(1)

QuerySpec == QueryInit /\ [][QueryNext]_vars

\* Several callers running create on the same collection name.
ConcDocs ==
  {<<>>} \cup {<<[page_content |-> 0,
                  metadata |-> ("doc_id" :> 0) @@ ("created_at" :> d)]>> : d \in Datetimes}

ConcNext ==
  \E c \in Callers :
    \/ \E texts \in ConcDocs : Create(c, texts)
    \/ SchemaContains(c)
    \/ CreateClass(c)
    \/ \E rnd \in [1 .. Len(DocsOf(c)) -> Ids] : GetUuids(c, rnd)
    \/ \E send \in BOOLEAN : AddDataObject(c, send)
    \/ ExitBatch(c)
    \/ BatchTimeout(c)
    \/ \E rejected \in SUBSET (1 .. Len(batch[c])) : BatchResponse(c, rejected)
    \/ AddTextsReturn(c)
    \/ Return(c)

ConcSpec == Init /\ [][ConcNext]_vars

\* Name derivation on every dataset of the bounded set.
NameInit ==
  /\ schemas = {default_schema(OtherClass)}
  /\ objects = {}
  /\ InitCallers
  /\ dataset \in Datasets
  /\ names = <<>>
  /\ npc = "derive"

NameNext == GetCollectionName \/ ToIndexStruct

NameSpec == NameInit /\ [][NameNext]_vars

\* ------------------------------------------------------------------ claims
DoneWith(c, op) == pc[c] = "done" /\ call[c].op = op
Starts(c, op) == pc[c] = "idle" /\ pc'[c] = "done" /\ call'[c].op = op
OwnObjects(O, c) == ObjectsOf(O, collection_name[c])

\* What text_exists(id) returns on the objects O when the query succeeds.
ExistsIn(O, c, id) ==
  \A rows \in GetWhereLimit1(O, collection_name[c], ExistsWhere(id)) :
    text_exists([data |-> rows]).val

\* The rows of a response whose distance is at most the threshold, in order.
RECURSIVE RowsAtMost(_, _, _)
RowsAtMost(rows, threshold, j) ==
  IF j > Len(rows) THEN <<>>
  ELSE (IF rows[j].additional.distance <= threshold THEN <<rows[j]>> ELSE <<>>)
         \o RowsAtMost(rows, threshold, j + 1)

RowsOfDocs(docs) ==
  [j \in 1 .. Len(docs) |->
     [text |-> docs[j].page_content, additional |-> docs[j].metadata["additional"]]]

\* C1: search_by_vector returns exactly the rows of the response whose score
\* (distance) is <= score_threshold (0 when not given), in the backend's order.
C1_KeepsScoresAtMostThreshold ==
  \A c \in Callers :
    (DoneWith(c, "search_by_vector") /\ ret[c].returned) =>
      RowsOfDocs(ret[c].val) =
        RowsAtMost(resp[c].data,
                   KwGet(call[c].kwargs, "score_threshold", DefaultScoreThreshold), 1)

\* C2: add_texts on an existing collection returns one id per document, in
\* input order, and text_exists is true of every returned id afterwards.
C2_ReturnedIdsExist ==
  \A c \in Callers :
    (DoneWith(c, "add_texts") /\ ret[c].returned
       /\ ClassExists(schemas, collection_name[c])) =>
      /\ Len(ret[c].val) = Len(call[c].documents)
      /\ \A i \in 1 .. Len(ret[c].val) :
           /\ ret[c].val[i] = uuids[c][i]
           /\ ExistsIn(objects, c, ret[c].val[i])

\* The part of C2 that holds: one id per document, in input order.
C2_Witness ==
  \E c \in Callers :
    /\ DoneWith(c, "add_texts") /\ ret[c].returned
    /\ Len(ret[c].val) = MaxDocs
    /\ \A i \in 1 .. Len(ret[c].val) : ret[c].val[i] = uuids[c][i]

\* C3: with callers running create concurrently on one collection name, no
\* create is refused by the backend and the name has exactly one schema.
C3_ConcurrentCreateSafe ==
  \A c \in Callers :
    DoneWith(c, "create") =>
      /\ ret[c].exc # "UnexpectedStatusCodeException"
      /\ Cardinality({s \in schemas : s.class = collection_name[c]}) = 1

\* C4: called one after the other, create never has its schema creation
\* refused: create_class is issued only when the backend reported the schema
\* absent and the class is absent, so the name keeps one schema.  The only
\* error a create ends with is the timeout of a batch request of its
\* add_texts part, after timeout_retries retries.
C4_SequentialCreateIdempotent ==
  /\ [](\A c \in Callers :
          /\ DoneWith(c, "create") =>
               \/ ret[c].returned /\ ret[c].exc = "none"
                    /\ Cardinality({s \in schemas : s.class = collection_name[c]}) = 1
               \/ ret[c].exc = "ReadTimeout" /\ retries[c] = timeout_retries
                    /\ batch[c] # <<>>
          /\ Cardinality({s \in schemas : s.class = collection_name[c]}) <= 1)
  /\ [][\A c \in Callers :
          /\ (pc[c] = "contains"
                /\ schema_contains(schemas, default_schema(collection_name[c])))
               => pc'[c] = "add_texts"
          /\ (pc[c] = "create_class" /\ pc'[c] # "create_class")
               => /\ ~ClassExists(schemas, collection_name[c])
                  /\ pc'[c] = "add_texts"
                  /\ schemas' = schemas \cup {default_schema(collection_name[c])}]_vars

C4_Witness ==
  \E c \in Callers :
    /\ DoneWith(c, "create")
    /\ found[c]
    /\ call[c].texts # <<>>
    /\ ret[c].returned

\* C5: add_texts on an existing collection returns normally only if every
\* item of its batches was written.
C5_NoSilentDrop ==
  \A c \in Callers :
    (DoneWith(c, "add_texts") /\ ret[c].returned
       /\ ClassExists(schemas, collection_name[c])) =>
      \A i \in 1 .. Len(call[c].documents) :
        \E o \in OwnObjects(objects, c) : o.uuid = uuids[c][i]

\* The part of C5 that holds: after timeout_retries retries the timeout is raised.
C5_Witness ==
  \E c \in Callers :
    /\ DoneWith(c, "add_texts")
    /\ ret[c].exc = "ReadTimeout"
    /\ retries[c] = timeout_retries

QueryOps == {"search_by_vector", "search_by_full_text", "text_exists"}

\* C6: a query handler raises the query error, carrying the backend's error
\* list and returning nothing, exactly when the response has an error list;
\* it issues its query once.
C6_QueryErrorSurfaced ==
  \A c \in Callers :
    (pc[c] = "done" /\ call[c].op \in QueryOps) =>
      /\ nqueries[c] = 1
      /\ "errors" \in DOMAIN resp[c] =>
           /\ resp[c].errors # <<>>
           /\ ret[c].exc = "ValueError"
           /\ ret[c].msg = resp[c].errors
           /\ ~ret[c].returned
      /\ "errors" \notin DOMAIN resp[c] =>
           /\ ret[c].exc = "none"
           /\ ret[c].returned

C6_Witness ==
  \E c \in Callers :
    /\ DoneWith(c, "text_exists")
    /\ "errors" \in DOMAIN resp[c]
    /\ ret[c].exc = "ValueError"
    /\ OwnObjects(objects, c) # {}

\* C7: delete_by_ids removes exactly the entries whose identity is in the
\* list; afterwards text_exists is false of every deleted id and true of
\* every id that was stored and is not in the list.
C7_DeleteByIdsThenExists ==
  [][\A c \in Callers :
       Starts(c, "delete_by_ids") =>
         LET L == Range(call'[c].ids)
             stored == {o.uuid : o \in OwnObjects(objects, c)}
         IN /\ objects' = objects \ {o \in OwnObjects(objects, c) : o.uuid \in L}
            /\ \A id \in L : ~ExistsIn(objects', c, id)
            /\ \A id \in stored \ L : ExistsIn(objects', c, id)]_vars

\* The part of C7 that holds: an entry in the list is removed, another is kept.
C7_Witness ==
  \E c \in Callers :
    /\ DoneWith(c, "delete_by_ids")
    /\ call[c].ids # <<>>
    /\ \E o \in OwnObjects(objects, c) : o.uuid \notin Range(call[c].ids)

\* C8: delete_by_metadata_field removes the entries of this collection whose
\* field key equals value, and nothing else: not an entry whose field differs
\* or is absent, and no entry of another collection.
C8_DeleteByMetadataExact ==
  [][\A c \in Callers :
       Starts(c, "delete_by_metadata_field") =>
         /\ objects' \subseteq objects
         /\ \A o \in objects :
              o \notin objects' <=>
                /\ o.cls = collection_name[c]
                /\ call'[c].key \in DOMAIN o.props
                /\ o.props[call'[c].key] = call'[c].value]_vars

C8_Witness ==
  \E c \in Callers :
    /\ DoneWith(c, "delete_by_metadata_field")
    /\ resp[c].results.matches > 0
    /\ \E o \in OwnObjects(objects, c) : call[c].key \in DOMAIN o.props
    /\ \E o \in objects \ OwnObjects(objects, c) :
         /\ call[c].key \in DOMAIN o.props
         /\ o.props[call[c].key] = call[c].value

\* C9: delete leaves neither the schema nor any entry of the collection; a
\* create with no documents that follows it finds the schema absent, creates
\* it, and the collection is empty.
C9_DropThenCreateEmpty ==
  /\ [][\A c \in Callers :
          Starts(c, "delete") =>
            /\ ~ClassExists(schemas', collection_name[c])
            /\ OwnObjects(objects', c) = {}
            /\ objects \ OwnObjects(objects, c) \subseteq objects']_vars
  /\ [](\A c \in Callers :
          (DoneWith(c, "create") /\ dropped[c] /\ call[c].texts = <<>>) =>
            /\ ~found[c]
            /\ ret[c].returned
            /\ schema_contains(schemas, default_schema(collection_name[c]))
            /\ OwnObjects(objects, c) = {})

C9_Witness ==
  \E c \in Callers :
    /\ DoneWith(c, "create") /\ dropped[c] /\ call[c].texts = <<>>
    /\ ~found[c]
    /\ OwnObjects(objects, c) = {}

\* C10: every derivation for a dataset gives the same name, also after the
\* derived name was stored as class_prefix, and a class_prefix that ends with
\* '_Node' is returned unchanged.
C10_NameIdempotent ==
  /\ \A i, j \in 1 .. Len(names) : names[i] = names[j]
  /\ (npc = "store" /\ DOMAIN dataset.index_struct_dict # {}
        /\ endswith(dataset.index_struct_dict.vector_store.class_prefix, NodeSuffix))
       => names[Len(names)] = dataset.index_struct_dict.vector_store.class_prefix

C10_Witness ==
  /\ Len(names) = MaxDerive
  /\ names[1] = names[MaxDerive]
  /\ SubSeq(names[1], 1, Len(VectorIndexPrefix)) = VectorIndexPrefix
  /\ "-" \in Range(dataset.id)

====
